---- MODULE Spec2Model ----
(***************************************************************************)
(* Model of the code-agent repository's indexing and retrieval core:       *)
(*   - CodeIndex (code_index.py): build of the file / symbol / chunk /     *)
(*     endpoint logs and of stats.json, with the external ctags process;   *)
(*   - MemoryStore (memory.py): add_from_turn and retrieve_topk on the     *)
(*     memory log;                                                         *)
(*   - the query tools (tools.py): files/symbols/chunks/mixed search.      *)
(* Each subsystem has its own next-state relation and specification over   *)
(* the same variables; a subsystem's actions leave the others unchanged.   *)
(* Scores are kept in exact fixed point (see the scale of each score).     *)
(***************************************************************************)
EXTENDS Integers, Sequences, FiniteSets, TLC

VARIABLES
    \* ---- chunking of one file (CodeIndex._build_chunks, inner loop)
    cN, cW, cO, cOut,
    \* ---- endpoint scan of one line (CodeIndex._build_endpoints, Flask branch)
    epIn, epOut,
    \* ---- MemoryStore (memory.py)
    memLog,       \* memory.jsonl: the sequence of stored items
    now,          \* the wall clock, in days
    turns,        \* add_from_turn calls made so far
    addPc,        \* "idle", or "loop" inside add_from_turn's for loop
    addCands,     \* add_from_turn: candidates
    addIdx,       \* add_from_turn: position of the next candidate
    addExisting,  \* add_from_turn: the list `existing`, updated in place
    appended,     \* history: contents ever appended to the log
    ret,          \* last retrieve_topk call and what it returned
    faiss,        \* TRUE when the faiss module was imported
    vIndex,       \* self._index: [loaded, vecs], a vector named by its content
    vMeta,        \* self._meta: the contents, in the order of the vectors
    dIndex,       \* index.faiss on disk [exists, vecs]
    dMeta,        \* meta.jsonl on disk  [exists, recs]
    upsertFailed, \* history: contents appended by this call whose upsert raised
    reindexRet,   \* how the last call ended when it was reindex, "none" otherwise
    \* ---- query tools (tools.py), reading the logs under .codeagent/code_index
    qFiles,       \* files.jsonl as the tools read it
    qSymbols,     \* symbols.jsonl
    qChunks,      \* chunks.jsonl
    qRet,         \* last search call and what it returned
    \* ---- CodeIndex (code_index.py)
    tree,         \* the files on disk: indices into Universe
    filesLog,     \* files.jsonl     [exists, recs]
    symbolsLog,   \* symbols.jsonl
    chunksLog,    \* chunks.jsonl
    endpointsLog, \* endpoints.jsonl
    stats,        \* stats.json
    bPc,          \* position of the running build, "idle" when none runs
    bArgs,        \* arguments of the running build
    bFiles,       \* init: the list `files`
    bCounts,      \* init: sym_count, chk_count, ep_count so far
    bWritten,     \* history: the logs this build has opened for writing
    symOutcome,   \* history: how the symbol step of this build went
    ext,          \* the external ctags process and its pipes
    \* ---- ReActAgent.run (agent.py), without session and memory
    agPc,         \* "idle", "model" (the loop calls the model), "confirm"
                  \* (blocked in input()), "done" (run returned or raised)
    agEnv,        \* RUN_CMD_CONFIRM_MODE as the environment gives it
    agSteps,      \* calls of the model made by this run
    agAction,     \* the action the prompt is about
    agAnswer,     \* what the user typed at the last prompt
    agExecuted,   \* history: the tool calls made, in order
    agObs,        \* observations appended to messages
    agResult      \* how run ended: "none", "final", "cancelled", "raised"

chunkVars == <<cN, cW, cO, cOut, epIn, epOut>>
vecVars == <<faiss, vIndex, vMeta, dIndex, dMeta, upsertFailed, reindexRet>>
memVars == <<memLog, now, turns, addPc, addCands, addIdx, addExisting, appended, ret,
             vecVars>>
searchVars == <<qFiles, qSymbols, qChunks, qRet>>
indexVars == <<tree, filesLog, symbolsLog, chunksLog, endpointsLog, stats,
               bPc, bArgs, bFiles, bCounts, bWritten, symOutcome, ext>>
agentVars == <<agPc, agEnv, agSteps, agAction, agAnswer, agExecuted, agObs, agResult>>
vars == <<chunkVars, memVars, searchVars, indexVars, agentVars>>

\* ------------------------------------------------------------------ helpers
Max(a, b) == IF a >= b THEN a ELSE b
Min(a, b) == IF a <= b THEN a ELSE b
Range(s) == {s[i] : i \in DOMAIN s}

\* ------------------------------------------------------------------ bounds
MaxLines == 5
MaxChunk == 4
MaxItems == 3
MaxTurns == 2
MaxTicks == 1
PipeCap == 1

\* =========================================================================
\* Chunk windows of one file: code_index.py lines 211-234
\* =========================================================================


\* step = max(1, chunk_lines - max(0, chunk_overlap))
ChunkStep(chunk_lines, chunk_overlap) == Max(1, chunk_lines - Max(0, chunk_overlap))

\* the while loop: windows are emitted until one ends at n or start reaches n
RECURSIVE ChunkLoop(_, _, _, _, _)
ChunkLoop(n, chunk_lines, step, start, acc) ==
    IF ~(start < n) THEN acc
    ELSE LET end == Min(n, start + chunk_lines)
             acc2 == Append(acc, [startLine |-> start + 1, endLine |-> end])
         IN IF end = n THEN acc2
            ELSE ChunkLoop(n, chunk_lines, step, start + step, acc2)

\* the chunk windows of a file of n lines (n = 0: the file is skipped)
ChunkWindows(n, chunk_lines, chunk_overlap) ==
    IF n = 0 THEN <<>>
    ELSE ChunkLoop(n, chunk_lines, ChunkStep(chunk_lines, chunk_overlap), 0, <<>>)

NoList == <<"no list">>
\* no line scanned yet
NoLine == [lang |-> "python", line |-> 0, route |-> "/x", written |-> "none",
           methods |-> NoList]

ChunkInit ==
    /\ cN = 0
    /\ cW = 1
    /\ cO = 0
    /\ cOut = <<>>
    /\ epIn = NoLine
    /\ epOut = <<>>

\* one file of n lines is chunked with the given size and overlap
ChunkFile ==
    \E n \in 0..MaxLines, w \in -1..MaxChunk, o \in -2..MaxChunk :
        /\ cN' = n
        /\ cW' = w
        /\ cO' = o
        /\ cOut' = ChunkWindows(n, w, o)
        /\ UNCHANGED <<epIn, epOut>>
        /\ UNCHANGED <<memVars, searchVars, indexVars, agentVars>>

\* ---- the Flask branch of _build_endpoints, lines 294-309, on one line
\* @app.route("<route>"<rest>) of a file whose language tag is lang.
\* methods: NoList when rest has no methods=[...] with something between the
\* brackets (methods=[] included: the pattern needs one character), else
\* the comma-separated entries as written.
MethodEntries == {"\"GET\"", "'post'", " "}
MaxMethods == 3

\* t.strip().strip(quotes): the entry without blanks and quotes
Unquote(t) ==
    CASE t = "\"GET\"" -> "GET"
      [] t = "'post'" -> "post"
      [] OTHER -> ""
\* str.upper
Upper(t) == CASE t = "post" -> "POST" [] OTHER -> t

\* lines 302-303: strip every entry, drop the empty ones, upper-case
RECURSIVE MethodList(_)
MethodList(entries) ==
    IF entries = <<>> THEN <<>>
    ELSE (IF Unquote(Head(entries)) # "" THEN <<Upper(Unquote(Head(entries)))>> ELSE <<>>)
         \o MethodList(Tail(entries))

\* lines 296-309: the records written for the line
FlaskRecords(in) ==
    IF in.lang # "python" THEN <<>>
    ELSE LET method_list == IF in.methods = NoList THEN <<"ANY">>
                            ELSE MethodList(in.methods)
         IN [k \in DOMAIN method_list |->
                [line |-> in.line, method |-> method_list[k], route |-> in.route,
                 framework |-> "python-flask"]]

RECURSIVE SeqsUpTo(_, _)
SeqsUpTo(S, n) ==
    IF n = 0 THEN {<<>>}
    ELSE LET shorter == SeqsUpTo(S, n - 1)
         IN shorter \cup {Append(q, x) : q \in shorter, x \in S}

\* the registration lines scanned: with an empty list written methods=[]
\* (seen as no list by line 300), with one to MaxMethods entries, or none
RouteLines ==
    [lang : {"python", "javascript"}, line : 1..2, route : {"/x", "/y"},
     written : {"none", "empty"}, methods : {NoList}]
    \cup [lang : {"python", "javascript"}, line : 1..2, route : {"/x", "/y"},
          written : {"list"}, methods : SeqsUpTo(MethodEntries, MaxMethods) \ {<<>>}]

\* one registration line is scanned
ScanLine ==
    /\ \E in \in RouteLines :
          /\ epIn' = in
          /\ epOut' = FlaskRecords(in)
    /\ UNCHANGED <<cN, cW, cO, cOut>>
    /\ UNCHANGED <<memVars, searchVars, indexVars, agentVars>>

\* =========================================================================
\* MemoryStore: memory.py
\* =========================================================================
\* A text is a sequence of atoms: a word (a maximal run of word characters),
\* a blank " ", or a punctuation run "!!".
IsSpace(a) == a = " "
IsWord(a) == a \notin {" ", "!!", "/", ".", "="}
Lower(a) ==
    CASE a = "Use" -> "use"
      [] a = "Parse" -> "parse"
      [] a = "GET" -> "get"
      [] a = "POST" -> "post"
      [] a = "RM" -> "rm"
      [] a = "NEVER" -> "never"
      [] a = "Y" -> "y"
      [] OTHER -> a

RECURSIVE LStrip(_)
LStrip(t) == IF t # <<>> /\ IsSpace(Head(t)) THEN LStrip(Tail(t)) ELSE t
RECURSIVE RStrip(_)
RStrip(t) ==
    IF t # <<>> /\ IsSpace(t[Len(t)]) THEN RStrip(SubSeq(t, 1, Len(t) - 1)) ELSE t
Strip(t) == RStrip(LStrip(t))
LowerText(t) == [i \in DOMAIN t |-> Lower(t[i])]

\* re.sub(r"\s+", " ", t): every run of blanks becomes one blank
RECURSIVE CollapseSpaces(_)
CollapseSpaces(t) ==
    IF t = <<>> THEN <<>>
    ELSE IF IsSpace(Head(t))
         THEN <<" ">> \o CollapseSpaces(LStrip(t))
         ELSE <<Head(t)>> \o CollapseSpaces(Tail(t))


\* _normalize_text: re.sub(r"\s+", " ", text.strip().lower())
_normalize_text(text) == CollapseSpaces(LowerText(Strip(text)))

\* set(_tokenize(text)): the lower-cased words of the text
_tokenize(text) == {Lower(text[i]) : i \in {j \in DOMAIN text : IsWord(text[j])}}

\* candidate fragments _extract_candidates can return
Contents ==
    { <<"Use", " ", "pytest">>,
      <<"use", " ", " ", "pytest">>,
      <<"use", " ", "ruff">> }

\* queries given to retrieve_topk
Queries ==
    { <<"Use">>, <<"ruff">>, <<" ">>, <<"!!">> }

\* the lists of candidates of one turn (k = 2 fragments at most)
CandLists == {<<c>> : c \in Contents} \cup {<<c, d>> : c \in Contents, d \in Contents}

\* program constants, importance in units of 0.05
ImpSeed == 12
ImpCap == 20
RecentDays == 7
MonthDays == 30

NoRet == [q |-> <<>>, k |-> 0, out |-> <<>>, called |-> FALSE]

\* an item stored earlier whose importance dedup hits have raised to 0.95
OldItem ==
    [id |-> 0, content |-> <<"use", " ", "ruff">>, importance |-> ImpCap - 1,
     createdAt |-> 0, lastUsedAt |-> 0]

\* ---- the vector index (faiss) of the store, lines 81-147
NoIndex == [loaded |-> FALSE, vecs |-> <<>>]
EmptyIndex == [loaded |-> TRUE, vecs |-> <<>>]
NoBlob == [exists |-> FALSE, vecs |-> <<>>]
NoMetaFile == [exists |-> FALSE, recs |-> <<>>]

\* line 142: a content is ignored when its similarity exceeds 0.88
DupThreshold == 88

\* cosine similarity of the embeddings of two texts, times 100: the model
\* embeds texts that differ in case or spacing only next to each other; the
\* inner product of two unit vectors can be negative, which is what texts
\* that share no word get here
Sim(a, b) ==
    IF a = b THEN 100
    ELSE IF _normalize_text(a) = _normalize_text(b) THEN 95
    ELSE IF _tokenize(a) \cap _tokenize(b) # {} THEN 50
    ELSE -60

\* the vector backend is off: faiss is None and nothing was ever indexed
VecOff ==
    /\ faiss = FALSE
    /\ vIndex = NoIndex
    /\ vMeta = <<>>
    /\ dIndex = NoBlob
    /\ dMeta = NoMetaFile
    /\ upsertFailed = {}
    /\ reindexRet = "none"

\* faiss was imported; the index files do not exist yet
VecOn ==
    /\ faiss = TRUE
    /\ vIndex = NoIndex
    /\ vMeta = <<>>
    /\ dIndex = NoBlob
    /\ dMeta = NoMetaFile
    /\ upsertFailed = {}
    /\ reindexRet = "none"

\* _load_index, lines 81-97 (faiss is not None): the (index, meta) it leaves
\* in memory; reading the files can fail, and then the index starts empty
LoadOutcomes ==
    IF vIndex.loaded THEN {[vi |-> vIndex, vm |-> vMeta]}
    ELSE IF dIndex.exists /\ dMeta.exists
         THEN {[vi |-> [loaded |-> TRUE, vecs |-> dIndex.vecs], vm |-> dMeta.recs],
               [vi |-> EmptyIndex, vm |-> <<>>]}
         ELSE {[vi |-> EmptyIndex, vm |-> <<>>]}

\* _save_index, lines 99-103: write_index, then _write_meta; either can raise
SaveOutcomes(vi, vm) ==
    { [vi |-> vi, vm |-> vm, di |-> dIndex, dm |-> dMeta, failed |-> TRUE],
      [vi |-> vi, vm |-> vm, di |-> [exists |-> TRUE, vecs |-> vi.vecs],
       dm |-> dMeta, failed |-> TRUE],
      [vi |-> vi, vm |-> vm, di |-> [exists |-> TRUE, vecs |-> vi.vecs],
       dm |-> [exists |-> TRUE, recs |-> vm], failed |-> FALSE] }

\* lines 138-142: some stored vector is closer than 0.88 to the content
NearDuplicate(vi, vm, content) ==
    /\ Len(vm) > 0
    /\ \E i \in DOMAIN vi.vecs : Sim(content, vi.vecs[i]) > DupThreshold

\* _vector_upsert, lines 132-147: what one call can leave behind
UpsertOutcomes(content) ==
    IF content = <<>> \/ ~faiss
    THEN {[vi |-> vIndex, vm |-> vMeta, di |-> dIndex, dm |-> dMeta, failed |-> FALSE]}
    ELSE UNION { 
           \* the model cannot be loaded or encode / search / add raises
           {[vi |-> l.vi, vm |-> l.vm, di |-> dIndex, dm |-> dMeta, failed |-> TRUE]}
           \cup
           (IF NearDuplicate(l.vi, l.vm, content)
            THEN {[vi |-> l.vi, vm |-> l.vm, di |-> dIndex, dm |-> dMeta,
                   failed |-> FALSE]}
            ELSE SaveOutcomes([l.vi EXCEPT !.vecs = Append(@, content)],
                              Append(l.vm, content)))
           : l \in LoadOutcomes }

\* the store when another subsystem is studied
MemIdle ==
    /\ memLog = <<>>
    /\ now = 0
    /\ turns = 0
    /\ addPc = "idle"
    /\ addCands = <<>>
    /\ addIdx = 1
    /\ addExisting = <<>>
    /\ appended = {}
    /\ ret = NoRet
    /\ VecOff

MemInit ==
    /\ memLog \in {<<>>, <<OldItem>>}
    /\ now = 0
    /\ turns = 0
    /\ addPc = "idle"
    /\ addCands = <<>>
    /\ addIdx = 1
    /\ addExisting = <<>>
    /\ appended = {}
    /\ ret = NoRet
    /\ VecOff

\* time passes between calls
Tick ==
    /\ addPc = "idle"
    /\ \E d \in {RecentDays + 1, MonthDays + 1} :
          /\ now + d <= MaxTicks * (MonthDays + 1)
          /\ now' = now + d
    /\ ret' = NoRet
    /\ UNCHANGED <<memLog, turns, addPc, addCands, addIdx, addExisting, appended>>
    /\ UNCHANGED vecVars
    /\ UNCHANGED <<chunkVars, searchVars, indexVars, agentVars>>

\* existing_norm[norm]: the dict keeps the last item of each normalized form
HasNorm(existing, norm) ==
    \E i \in DOMAIN existing : _normalize_text(existing[i].content) = norm
ExistingNormIdx(existing, norm) ==
    CHOOSE i \in DOMAIN existing :
        /\ _normalize_text(existing[i].content) = norm
        /\ \A j \in DOMAIN existing :
              _normalize_text(existing[j].content) = norm => j <= i

\* add_from_turn, lines 150-156: candidates, existing, existing_norm, now
AddStart ==
    /\ addPc = "idle"
    /\ turns < MaxTurns
    /\ \E cands \in CandLists :
          /\ Len(memLog) + Len(cands) <= MaxItems
          /\ addCands' = cands
    /\ addExisting' = memLog
    /\ addIdx' = 1
    /\ addPc' = "loop"
    /\ turns' = turns + 1
    /\ ret' = NoRet
    /\ upsertFailed' = {}
    /\ reindexRet' = "none"
    /\ UNCHANGED <<memLog, now, appended, faiss, vIndex, vMeta, dIndex, dMeta>>
    /\ UNCHANGED <<chunkVars, searchVars, indexVars, agentVars>>

NewItem(c) ==
    [id |-> now, content |-> c, importance |-> ImpSeed,
     createdAt |-> now, lastUsedAt |-> now]

\* mutant of TouchItem: the raise is not capped
TouchItemUncapped(existing, j) ==
    [existing EXCEPT ![j].lastUsedAt = now,
                     ![j].importance = @ + 1]

\* the dedup-hit branch, lines 163-165: touch and raise the importance
TouchItem(existing, j) ==
    [existing EXCEPT ![j].lastUsedAt = now,
                     ![j].importance = Min(ImpCap, @ + 1)]

\* one iteration of the for loop, lines 157-179
AddStep ==
    /\ addPc = "loop"
    /\ LET c == addCands[addIdx]
           norm == _normalize_text(c)
       IN IF norm = <<>>
          THEN UNCHANGED <<memLog, addExisting, appended, vecVars>>
          ELSE IF HasNorm(addExisting, norm)
          THEN LET upd == TouchItem(addExisting, ExistingNormIdx(addExisting, norm))
               IN /\ addExisting' = upd
                  /\ memLog' = upd            \* _rewrite_all(existing)
                  /\ UNCHANGED <<appended, vecVars>>
          ELSE /\ memLog' = Append(memLog, NewItem(c))    \* _append_item
               /\ appended' = appended \cup {c}
               \* lines 69-72: the upsert, whose exception is swallowed
               /\ \E u \in UpsertOutcomes(c) :
                     /\ vIndex' = u.vi
                     /\ vMeta' = u.vm
                     /\ dIndex' = u.di
                     /\ dMeta' = u.dm
                     /\ upsertFailed' = IF u.failed THEN upsertFailed \cup {c}
                                        ELSE upsertFailed
               /\ UNCHANGED <<addExisting, faiss, reindexRet>>
    /\ addIdx' = addIdx + 1
    /\ addPc' = IF addIdx = Len(addCands) THEN "idle" ELSE "loop"
    /\ UNCHANGED <<now, turns, addCands, ret>>
    /\ UNCHANGED <<chunkVars, searchVars, indexVars, agentVars>>

\* recency_score, lines 216-226, times 10
recency_score(t) ==
    IF now - t <= RecentDays THEN 10
    ELSE IF now - t <= MonthDays THEN 5
    ELSE 1

\* line 256 with the vector part 0: 0.25*importance + 0.15*rec + 0.2*overlap,
\* times 10000
FusedScore(it, q_tokens) ==
    125 * it.importance + 150 * recency_score(it.lastUsedAt)
        + 2000 * Cardinality(q_tokens \cap _tokenize(it.content))

\* vector_scores.get(content, 0.0), times 100
VecOf(vector_scores, content) ==
    IF content \in DOMAIN vector_scores THEN vector_scores[content] ELSE 0

\* line 256: 0.6*vec + 0.25*importance + 0.15*rec + 0.2*overlap, times 10000
FusedScoreVec(it, q_tokens, vector_scores) ==
    60 * VecOf(vector_scores, it.content) + FusedScore(it, q_tokens)

\* lines 247-258 with vector scores
RECURSIVE ScoredVec(_, _, _)
ScoredVec(items, q_tokens, vector_scores) ==
    IF items = <<>> THEN <<>>
    ELSE LET it == Head(items)
             s == FusedScoreVec(it, q_tokens, vector_scores)
         IN (IF s > 0 THEN <<[score |-> s, content |-> it.content]>> ELSE <<>>)
                \o ScoredVec(Tail(items), q_tokens, vector_scores)

\* lines 247-258: (score, content) of the items whose score is positive
RECURSIVE Scored(_, _)
Scored(items, q_tokens) ==
    IF items = <<>> THEN <<>>
    ELSE LET it == Head(items)
             s == FusedScore(it, q_tokens)
         IN (IF s > 0 THEN <<[score |-> s, content |-> it.content]>> ELSE <<>>)
                \o Scored(Tail(items), q_tokens)

\* mutant of SortDesc: the list is left in log order
SortDescNone(s) == s

\* mutant of TouchTop: the touch also raises the importance
TouchTopRaising(items, top) ==
    [i \in DOMAIN items |->
        IF \E j \in DOMAIN top : top[j].content = items[i].content
        THEN [items[i] EXCEPT !.lastUsedAt = now, !.importance = Min(ImpCap, @ + 1)]
        ELSE items[i]]

\* list.sort(key=score, reverse=True): stable, descending
RECURSIVE InsertDesc(_, _)
InsertDesc(sorted, x) ==
    IF sorted = <<>> THEN <<x>>
    ELSE IF Head(sorted).score >= x.score
         THEN <<Head(sorted)>> \o InsertDesc(Tail(sorted), x)
         ELSE <<x>> \o sorted
RECURSIVE SortDescFrom(_, _)
SortDescFrom(s, acc) ==
    IF s = <<>> THEN acc ELSE SortDescFrom(Tail(s), InsertDesc(acc, Head(s)))


SortDesc(s) == SortDescFrom(s, <<>>)

Take(s, k) == SubSeq(s, 1, Min(Len(s), Max(0, k)))

\* lines 264-270: the items whose content is in top get lastUsedAt = now
TouchTop(items, top) ==
    [i \in DOMAIN items |->
        IF \E j \in DOMAIN top : top[j].content = items[i].content
        THEN [items[i] EXCEPT !.lastUsedAt = now]
        ELSE items[i]]

\* index.search(qv, topn): the positions of the topn nearest vectors
SearchHits(vi, query, topn) ==
    Take(SortDesc([i \in DOMAIN vi.vecs |->
                      [score |-> Sim(query, vi.vecs[i]), idx |-> i]]), topn)

\* mutant of VecScoreOf: the first score of a content is taken as it is
VecScoreOfRaw(acc, c, sc) ==
    IF c \in DOMAIN acc THEN Max(acc[c], sc) ELSE sc

\* line 242: max(vector_scores.get(c, 0.0), float(score))
VecScoreOf(acc, c, sc) ==
    Max(IF c \in DOMAIN acc THEN acc[c] ELSE 0, sc)

\* lines 236-242: vector_scores; self._meta[i] raises on a position the
\* metadata does not have, which ends the loop (line 243)
RECURSIVE VectorScores(_, _, _)
VectorScores(hits, vm, acc) ==
    IF hits = <<>> THEN acc
    ELSE IF Head(hits).idx > Len(vm) THEN acc
    ELSE LET c == vm[Head(hits).idx]
             sc == Head(hits).score
         IN VectorScores(Tail(hits), vm,
                IF c = <<>> THEN acc
                ELSE IF c \in DOMAIN acc THEN [acc EXCEPT ![c] = VecScoreOf(acc, c, sc)]
                ELSE acc @@ (c :> VecScoreOf(acc, c, sc)))

\* lines 229-244: the vector scores one call can work with; encoding the
\* query can raise, and then there are none
NoScores == [c \in {} |-> 0]
VectorScoreChoices(vi, vm, query) ==
    IF Len(vm) = 0 THEN {NoScores}
    ELSE {NoScores, VectorScores(SearchHits(vi, query, Min(20, Len(vm))), vm, NoScores)}

\* retrieve_topk, lines 205-272
Retrieve ==
    /\ addPc = "idle"
    /\ \E q \in Queries, k \in 1..2 :
          LET q_tokens == _tokenize(q)
          IN IF memLog = <<>> \/ Strip(q) = <<>> \/ q_tokens = {}
             THEN /\ ret' = [q |-> q, k |-> k, out |-> <<>>, called |-> TRUE]
                  /\ UNCHANGED <<memLog, vIndex, vMeta>>
             ELSE IF ~faiss
             THEN LET top == Take(SortDesc(Scored(memLog, q_tokens)), k)
                  IN /\ ret' = [q |-> q, k |-> k, out |-> top, called |-> TRUE]
                     /\ memLog' = IF top # <<>> THEN TouchTop(memLog, top) ELSE memLog
                     /\ UNCHANGED <<vIndex, vMeta>>
             ELSE \E l \in LoadOutcomes :
                    \E vs \in VectorScoreChoices(l.vi, l.vm, q) :
                      LET top == Take(SortDesc(ScoredVec(memLog, q_tokens, vs)), k)
                      IN /\ ret' = [q |-> q, k |-> k, out |-> top, called |-> TRUE]
                         /\ memLog' = IF top # <<>> THEN TouchTop(memLog, top)
                                       ELSE memLog
                         /\ vIndex' = l.vi
                         /\ vMeta' = l.vm
    /\ reindexRet' = "none"
    /\ UNCHANGED <<now, turns, addPc, addCands, addIdx, addExisting, appended>>
    /\ UNCHANGED <<faiss, dIndex, dMeta, upsertFailed>>
    /\ UNCHANGED <<chunkVars, searchVars, indexVars, agentVars>>

\* a new process opens the store: MemoryStore.__init__, lines 46-48
Reopen ==
    /\ addPc = "idle"
    /\ vIndex.loaded
    /\ vIndex' = NoIndex
    /\ vMeta' = <<>>
    /\ ret' = NoRet
    /\ reindexRet' = "none"
    /\ UNCHANGED <<memLog, now, turns, addCands, addIdx, addExisting, appended, addPc>>
    /\ UNCHANGED <<faiss, dIndex, dMeta, upsertFailed>>
    /\ UNCHANGED <<chunkVars, searchVars, indexVars, agentVars>>

\* the non-empty contents of the log, line 279
RECURSIVE ContentsOfLog(_)
ContentsOfLog(items) ==
    IF items = <<>> THEN <<>>
    ELSE (IF Head(items).content # <<>> THEN <<Head(items).content>> ELSE <<>>)
         \o ContentsOfLog(Tail(items))

\* mutant of ReindexOutcomes: the contents are added to the index in place
ReindexOutcomesAdding(items) ==
    LET contents == vMeta \o ContentsOfLog(items)
        saved == SaveOutcomes([loaded |-> TRUE, vecs |-> contents], contents)
    IN IF contents = <<>> THEN saved
       ELSE saved \cup {[vi |-> vIndex, vm |-> vMeta, di |-> dIndex, dm |-> dMeta,
                         failed |-> TRUE]}

\* MemoryStore.reindex, lines 275-291, with faiss imported: what one call can
\* leave behind. Nothing catches an exception here: encoding the contents
\* (line 286) raises before anything is replaced, and _save_index (lines 284
\* and 290) raises after self._index and self._meta were replaced.
ReindexOutcomes(items) ==
    LET contents == ContentsOfLog(items)
        saved == SaveOutcomes([loaded |-> TRUE, vecs |-> contents], contents)
    IN IF contents = <<>> THEN saved
       ELSE saved \cup {[vi |-> vIndex, vm |-> vMeta, di |-> dIndex, dm |-> dMeta,
                         failed |-> TRUE]}

\* the value reindex returns (lines 285 and 291), or that it raised
ReindexResult(items, failed) ==
    IF failed THEN "raised"
    ELSE IF ContentsOfLog(items) = <<>> THEN "reset"
    ELSE "rebuilt"

Reindex ==
    /\ addPc = "idle"
    /\ faiss
    /\ \E u \in ReindexOutcomes(memLog) :
          /\ vIndex' = u.vi
          /\ vMeta' = u.vm
          /\ dIndex' = u.di
          /\ dMeta' = u.dm
          /\ reindexRet' = ReindexResult(memLog, u.failed)
    /\ ret' = NoRet
    /\ UNCHANGED <<memLog, now, turns, addCands, addIdx, addExisting, appended, addPc>>
    /\ UNCHANGED <<faiss, upsertFailed>>
    /\ UNCHANGED <<chunkVars, searchVars, indexVars, agentVars>>

\* =========================================================================
\* Query tools: tools.py
\* =========================================================================
\* An absolute path is the sequence of its components; the project directory
ProjectRoot == <<"proj">>
IsPrefix(p, t) == Len(p) <= Len(t) /\ SubSeq(t, 1, Len(p)) = p

\* ensure_within_project, lines 6-13 (the logs hold no symbolic links)
ensure_within_project(path) == IsPrefix(ProjectRoot, path)

\* q in text, for texts as sequences of atoms
IsInfix(q, t) ==
    \E i \in 0..(Len(t) - Len(q)) : SubSeq(t, i + 1, i + Len(q)) = q

\* os.path.basename(rel): what follows the last "/"
RECURSIVE Basename(_)
Basename(rel) ==
    IF \E i \in DOMAIN rel : rel[i] = "/"
    THEN Basename(Tail(rel))
    ELSE rel

\* len(nm): characters of a symbol name
CharLen(a) ==
    CASE a \in {"parse", "Parse"} -> 5
      [] a = "cfg" -> 3
      [] OTHER -> 1
RECURSIVE TextLen(_)
TextLen(t) == IF t = <<>> THEN 0 ELSE CharLen(Head(t)) + TextLen(Tail(t))

\* list.sort on (key, item) pairs: stable; reverse=True keeps the order of ties
RECURSIVE InsertByKeyDesc(_, _)
InsertByKeyDesc(sorted, x) ==
    IF sorted = <<>> THEN <<x>>
    ELSE IF Head(sorted).key >= x.key
         THEN <<Head(sorted)>> \o InsertByKeyDesc(Tail(sorted), x)
         ELSE <<x>> \o sorted
RECURSIVE SortPairsDescFrom(_, _)
SortPairsDescFrom(s, acc) ==
    IF s = <<>> THEN acc
    ELSE SortPairsDescFrom(Tail(s), InsertByKeyDesc(acc, Head(s)))
SortPairsDesc(s) == SortPairsDescFrom(s, <<>>)

RECURSIVE InsertByKeyAsc(_, _)
InsertByKeyAsc(sorted, x) ==
    IF sorted = <<>> THEN <<x>>
    ELSE IF Head(sorted).key <= x.key
         THEN <<Head(sorted)>> \o InsertByKeyAsc(Tail(sorted), x)
         ELSE <<x>> \o sorted
RECURSIVE SortPairsAscFrom(_, _)
SortPairsAscFrom(s, acc) ==
    IF s = <<>> THEN acc
    ELSE SortPairsAscFrom(Tail(s), InsertByKeyAsc(acc, Head(s)))
SortPairsAsc(s) == SortPairsAscFrom(s, <<>>)

ItemsOf(pairs) == [i \in DOMAIN pairs |-> pairs[i].item]

\* results[: max(1, int(top_k))]
TopK(s, top_k) == SubSeq(s, 1, Min(Len(s), Max(1, top_k)))

\* records the logs can hold; line 0 stands for an absent line field
FileUniverse ==
    << [path |-> <<"proj", "src", "parse.py">>, relpath |-> <<"src", "/", "parse", ".", "py">>],
       [path |-> <<"proj", "cfg.py">>, relpath |-> <<"cfg", ".", "py">>],
       [path |-> <<"proj", "parse", "notes.md">>, relpath |-> <<"parse", "/", "notes", ".", "md">>] >>

SymbolUniverse ==
    << [path |-> <<"proj", "src", "parse.py">>, name |-> <<"Parse", "_", "cfg">>, line |-> 4],
       [path |-> <<"proj", "src", "parse.py">>, name |-> <<"parse">>, line |-> 1],
       [path |-> <<"other", "lib.py">>, name |-> <<"cfg">>, line |-> 1] >>

ChunkUniverse ==
    << [path |-> <<"proj", "src", "parse.py">>, startLine |-> 1, endLine |-> 3,
        identifiers |-> {"parse", "cfg"}, preview |-> <<"def", " ", "Parse", "_", "cfg">>],
       [path |-> <<"proj", "src", "parse.py">>, startLine |-> 3, endLine |-> 5,
        identifiers |-> {"parse"}, preview |-> <<"return", " ", "cfg">>],
       [path |-> <<"proj", "cfg.py">>, startLine |-> 1, endLine |-> 2,
        identifiers |-> {"cfg"}, preview |-> <<"cfg", " ", "=">>] >>

SearchQueries == { <<"parse">>, <<"Parse", " ", "cfg">>, <<"cfg">>, <<>> }
TopKs == {0, 1, 2, 20}

\* the sub-sequences of a sequence
RECURSIVE Pick(_, _, _)
Pick(u, keep, i) ==
    IF i > Len(u) THEN <<>>
    ELSE (IF i \in keep THEN <<u[i]>> ELSE <<>>) \o Pick(u, keep, i + 1)
SubSeqs(u) == {Pick(u, keep, 1) : keep \in SUBSET DOMAIN u}

NoSearch ==
    [op |-> "none", query |-> <<>>, top_k |-> 0, items |-> <<>>, raised |-> FALSE,
     message |-> FALSE]

\* the logs when another subsystem is studied: no index built
SearchIdle ==
    /\ qFiles = <<>>
    /\ qSymbols = <<>>
    /\ qChunks = <<>>
    /\ qRet = NoSearch

\* the logs of some build: chunks are cut from files of the manifest
SearchInit ==
    /\ qFiles \in SubSeqs(FileUniverse)
    /\ qSymbols \in SubSeqs(SymbolUniverse)
    /\ qChunks \in SubSeqs(ChunkUniverse)
    /\ \A i \in DOMAIN qChunks : \E j \in DOMAIN qFiles : qFiles[j].path = qChunks[i].path
    /\ qRet = NoSearch

\* files_search, lines 96-120: score times 10
FileScore(it, q) ==
    IF q # <<>>
    THEN (IF IsInfix(q, LowerText(it.relpath)) THEN 10 ELSE 0)
         + (IF IsInfix(q, LowerText(Basename(it.relpath))) THEN 10 ELSE 0)
    ELSE 0
RECURSIVE FileResults(_, _)
FileResults(items, q) ==
    IF items = <<>> THEN <<>>
    ELSE LET it == Head(items)
         IN <<[key |-> FileScore(it, q),
               item |-> [kind |-> "file", path |-> it.path, line |-> 0,
                         score |-> FileScore(it, q), source |-> "none"]]>>
            \o FileResults(Tail(items), q)
files_search(files, query, top_k) ==
    ItemsOf(TopK(SortPairsDesc(FileResults(files, LowerText(query))), top_k))

\* symbols_search, lines 132-169: name filter, then the path check
SymbolMatches(it, q) == q = <<>> \/ IsInfix(q, LowerText(it.name))
RECURSIVE SymbolResults(_, _)
SymbolResults(items, q) ==
    IF items = <<>> THEN <<>>
    ELSE LET it == Head(items)
         IN (IF SymbolMatches(it, q)
             THEN <<[key |-> TextLen(it.name),
                     item |-> [kind |-> "symbol", path |-> it.path, line |-> it.line,
                               score |-> 0, source |-> "none"]]>>
             ELSE <<>>)
            \o SymbolResults(Tail(items), q)
\* ensure_within_project raises ValueError on a matching record whose path
\* is not under the project directory
symbols_search_raises(symbols, name) ==
    \E i \in DOMAIN symbols :
        SymbolMatches(symbols[i], LowerText(name)) /\ ~ensure_within_project(symbols[i].path)
symbols_search(symbols, name, top_k) ==
    ItemsOf(TopK(SortPairsAsc(SymbolResults(symbols, LowerText(name))), top_k))

\* chunks_search, lines 180-212: 0.6*overlap + 0.4*(q in preview), times 10
ChunkScore(it, query) ==
    6 * Cardinality(_tokenize(query) \cap it.identifiers)
        + (IF LowerText(query) # <<>> /\ IsInfix(LowerText(query), LowerText(it.preview))
           THEN 4 ELSE 0)
RECURSIVE ChunkResults(_, _)
ChunkResults(items, query) ==
    IF items = <<>> THEN <<>>
    ELSE LET it == Head(items)
             sc == ChunkScore(it, query)
         IN (IF sc > 0
             THEN <<[key |-> sc,
                     item |-> [kind |-> "chunk", path |-> it.path, line |-> it.startLine,
                               score |-> sc, source |-> "none"]]>>
             ELSE <<>>)
            \o ChunkResults(Tail(items), query)
chunks_search(chunks, query, top_k) ==
    ItemsOf(TopK(SortPairsDesc(ChunkResults(chunks, query)), top_k))

\* mutant of GroupWeight: the file group is given the highest weight
GroupWeightFilesFirst(group) ==
    CASE group = "sym" -> 5 [] group = "chk" -> 7 [] group = "fil" -> 10

\* line 225: the weight of each group, times 10
GroupWeight(group) ==
    CASE group = "sym" -> 10 [] group = "chk" -> 7 [] group = "fil" -> 5

\* line 231: the source tag is read back from the weight
SourceOfWeight(weight) ==
    IF weight = 10 THEN "symbols" ELSE IF weight = 7 THEN "chunks" ELSE "files"

\* lines 225-232: one group is merged, skipping the keys seen before
RECURSIVE MergeGroup(_, _, _)
MergeGroup(acc, items, weight) ==
    IF items = <<>> THEN acc
    ELSE LET it == Head(items)
             key == <<it.path, it.line>>
         IN IF key \in acc.seen
            THEN MergeGroup(acc, Tail(items), weight)
            ELSE MergeGroup(
                   [seen |-> acc.seen \cup {key},
                    merged |-> Append(acc.merged,
                                  [key |-> weight,
                                   item |-> [it EXCEPT !.source = SourceOfWeight(weight)]])],
                   Tail(items), weight)

\* mixed_search, lines 214-235
mixed_search(files, symbols, chunks, query, top_k) ==
    LET sym == symbols_search(symbols, query, Max(5, top_k \div 3))
        chk == chunks_search(chunks, query, Max(5, top_k \div 2))
        fil == files_search(files, query, Max(5, top_k \div 3))
        a1 == MergeGroup([seen |-> {}, merged |-> <<>>], sym, GroupWeight("sym"))
        a2 == MergeGroup(a1, chk, GroupWeight("chk"))
        a3 == MergeGroup(a2, fil, GroupWeight("fil"))
    IN ItemsOf(TopK(SortPairsDesc(a3.merged), top_k))

MixedSearch ==
    /\ \E query \in SearchQueries, top_k \in TopKs :
          qRet' = IF symbols_search_raises(qSymbols, query)
                  THEN [op |-> "mixed_search", query |-> query, top_k |-> top_k,
                        items |-> <<>>, raised |-> TRUE, message |-> FALSE]
                  ELSE [op |-> "mixed_search", query |-> query, top_k |-> top_k,
                        items |-> mixed_search(qFiles, qSymbols, qChunks, query, top_k),
                        raised |-> FALSE, message |-> FALSE]
    /\ UNCHANGED <<qFiles, qSymbols, qChunks>>
    /\ UNCHANGED <<chunkVars, memVars, indexVars, agentVars>>

\* endpoint records a build can log for the files of FileUniverse
EndpointUniverse ==
    << [path |-> <<"proj", "src", "parse.py">>, line |-> 2, method |-> "GET",
        route |-> <<"/", "parse">>, handler |-> <<"cfg">>,
        preview |-> <<"def", " ", "cfg">>],
       [path |-> <<"proj", "src", "parse.py">>, line |-> 5, method |-> "POST",
        route |-> <<"/", "cfg">>, handler |-> <<"Parse", "_", "cfg">>,
        preview |-> <<"def", " ", "Parse", "_", "cfg">>],
       [path |-> <<"proj", "cfg.py">>, line |-> 1, method |-> "GET",
        route |-> <<"/", "v1", "/", "notes">>, handler |-> <<"notes">>,
        preview |-> <<"def", " ", "notes">>] >>

\* endpoints.jsonl of the build that wrote the manifest: code_index.py lines
\* 255-263 scan the files of files.jsonl
EndpointsLogged(files) ==
    SelectSeq(EndpointUniverse,
              LAMBDA e : \E j \in DOMAIN files : files[j].path = e.path)

\* the filter arguments left at None
NoMethod == "none"
NoPrefix == <<>>

\* endpoints_search, lines 256-260: 2*(q in route) + (q in handler) + (q in preview)
EndpointScore(it, q) ==
    IF q # <<>>
    THEN (IF IsInfix(q, LowerText(it.route)) THEN 2 ELSE 0)
         + (IF IsInfix(q, LowerText(it.handler)) THEN 1 ELSE 0)
         + (IF IsInfix(q, LowerText(it.preview)) THEN 1 ELSE 0)
    ELSE 0

\* lines 251-255: the method and route-prefix filters
EndpointPasses(it, method, path_prefix) ==
    /\ method # NoMethod => Lower(it.method) = Lower(method)
    /\ path_prefix # NoPrefix => IsPrefix(LowerText(path_prefix), LowerText(it.route))

RECURSIVE EndpointResults(_, _, _, _)
EndpointResults(items, q, method, path_prefix) ==
    IF items = <<>> THEN <<>>
    ELSE LET it == Head(items)
         IN (IF EndpointPasses(it, method, path_prefix)
             THEN <<[key |-> EndpointScore(it, q), item |-> it]>>
             ELSE <<>>)
            \o EndpointResults(Tail(items), q, method, path_prefix)

\* lines 248-270, once the log was read
endpoints_search(items, query, method, path_prefix, top_k) ==
    ItemsOf(TopK(SortPairsDesc(
        EndpointResults(items, LowerText(query), method, path_prefix)), top_k))

\* _index_paths, lines 17-24: the keys of the dict it returns
IndexPathKeys == {"files", "symbols", "chunks", "stats"}

\* endpoints_search, lines 246-248: p.get("endpoints") is None when the key
\* is missing, and _load_jsonl(None) raises TypeError in os.path.exists
endpoints_search_raises == "endpoints" \notin IndexPathKeys

\* what one of the single-index tools returns: the items, whether the
\* JSON has a "message" field, whether the call raised
ToolReply(op, query, top_k) ==
    LET reply(items, message, raised) ==
            [op |-> op, query |-> query, top_k |-> top_k, items |-> items,
             raised |-> raised, message |-> message]
    IN CASE op = "files_search" ->
                \* lines 96-120: no branch for an empty manifest
                reply(files_search(qFiles, query, top_k), FALSE, FALSE)
         [] op = "symbols_search" ->
                \* lines 132-135, 136-169
                IF qSymbols = <<>> THEN reply(<<>>, TRUE, FALSE)
                ELSE IF symbols_search_raises(qSymbols, query)
                     THEN reply(<<>>, FALSE, TRUE)
                     ELSE reply(symbols_search(qSymbols, query, top_k), FALSE, FALSE)
         [] op = "chunks_search" ->
                \* lines 180-183, 184-212
                IF qChunks = <<>> THEN reply(<<>>, TRUE, FALSE)
                ELSE reply(chunks_search(qChunks, query, top_k), FALSE, FALSE)
         [] op = "endpoints_search" ->
                \* lines 245-270, method and path_prefix left at None
                IF endpoints_search_raises THEN reply(<<>>, FALSE, TRUE)
                ELSE IF EndpointsLogged(qFiles) = <<>> THEN reply(<<>>, TRUE, FALSE)
                ELSE reply(endpoints_search(EndpointsLogged(qFiles), query,
                                            NoMethod, NoPrefix, top_k), FALSE, FALSE)

\* files_search, symbols_search, chunks_search or endpoints_search is called
ToolSearch ==
    /\ \E op \in {"files_search", "symbols_search", "chunks_search", "endpoints_search"},
          query \in SearchQueries, top_k \in TopKs :
          qRet' = ToolReply(op, query, top_k)
    /\ UNCHANGED <<qFiles, qSymbols, qChunks>>
    /\ UNCHANGED <<chunkVars, memVars, indexVars, agentVars>>

\* =========================================================================
\* CodeIndex: code_index.py
\* =========================================================================
\* lines 9-12
IGNORED_DIRS ==
    {".git", ".hg", ".svn", ".DS_Store", "node_modules", ".venv", "venv",
     "dist", "build", "out", "__pycache__", ".idea", ".vscode", ".codeagent"}

\* lines 14-19 (the extensions the model's files use)
TEXT_EXTS == {".py", ".js", ".csv", ".txt"}

\* The files a tree can hold. target: where a symbolic link points (<<>> for
\* a regular file); big: larger than max_size_mb; tags: declarations ctags
\* finds in it; eps: route registrations (one record per method).
Universe ==
    << [path |-> <<"proj", "src", "a.py">>, ext |-> ".py", lines |-> 3, big |-> FALSE,
        target |-> <<>>, tags |-> 1, eps |-> 2],
       [path |-> <<"proj", "build", "gen.py">>, ext |-> ".py", lines |-> 2, big |-> FALSE,
        target |-> <<>>, tags |-> 1, eps |-> 0],
       [path |-> <<"proj", "src", "node_modules", "x.js">>, ext |-> ".js", lines |-> 1,
        big |-> FALSE, target |-> <<>>, tags |-> 1, eps |-> 0],
       [path |-> <<"proj", "link.txt">>, ext |-> ".txt", lines |-> 2, big |-> FALSE,
        target |-> <<"etc", "secret.txt">>, tags |-> 0, eps |-> 0],
       [path |-> <<"proj", "src", "big.csv">>, ext |-> ".csv", lines |-> 4, big |-> TRUE,
        target |-> <<>>, tags |-> 0, eps |-> 0],
       [path |-> <<"other", "o.py">>, ext |-> ".py", lines |-> 2, big |-> FALSE,
        target |-> <<>>, tags |-> 1, eps |-> 0] >>

\* the scope arguments: None, "src", "build", "../other"
Scopes == { <<>>, <<"src">>, <<"build">>, <<"..", "other">> }

\* chunk_lines, chunk_overlap of a build
ChunkArgs == { [w |-> 2, o |-> 1], [w |-> 300, o |-> 50] }

\* os.path.abspath: ".." removes the component before it
RECURSIVE NormPath(_, _)
NormPath(comps, acc) ==
    IF comps = <<>> THEN acc
    ELSE IF Head(comps) = ".."
         THEN NormPath(Tail(comps), IF acc = <<>> THEN acc ELSE SubSeq(acc, 1, Len(acc) - 1))
         ELSE NormPath(Tail(comps), Append(acc, Head(comps)))
abspath(comps) == NormPath(comps, <<>>)

\* lines 83-84 and 138-139: os.path.abspath(os.path.join(root, scope))
ScopePrefix(scope) == abspath(ProjectRoot \o scope)

DirOf(path) == SubSeq(path, 1, Len(path) - 1)

\* os.walk(top) with line 87: the directories below top whose name is in
\* IGNORED_DIRS are not entered; top itself is walked whatever its name
Walked(e, top) ==
    /\ IsPrefix(top, DirOf(e.path))
    /\ \A i \in (Len(top) + 1)..Len(DirOf(e.path)) : e.path[i] \notin IGNORED_DIRS

\* line 91: path == root or path.startswith(root + os.sep)
InBoundary(path) == IsPrefix(ProjectRoot, path)


\* lines 88-99: the files _iter_files yields
Yielded(e, top) == Walked(e, top) /\ InBoundary(e.path) /\ ~e.big

\* lines 100-118: the File Record of a yielded file
FileRecord(e) ==
    [path |-> e.path, is_text |-> e.ext \in TEXT_EXTS,
     lines |-> IF e.ext \in TEXT_EXTS THEN e.lines ELSE 0]

RECURSIVE IterFrom(_, _, _)
IterFrom(t, top, i) ==
    IF i > Len(Universe) THEN <<>>
    ELSE (IF i \in t /\ Yielded(Universe[i], top) THEN <<FileRecord(Universe[i])>> ELSE <<>>)
         \o IterFrom(t, top, i + 1)
\* _iter_files, lines 81-118
_iter_files(t, scope) == IterFrom(t, ScopePrefix(scope), 1)

\* the lines ctags -R target_dir prints: one tag per declaration of every
\* source file below target_dir
RECURSIVE TagsFrom(_, _, _)
TagsFrom(t, top, i) ==
    IF i > Len(Universe) THEN <<>>
    ELSE (IF i \in t /\ IsPrefix(top, DirOf(Universe[i].path)) /\ Universe[i].tags > 0
          THEN <<[type |-> "tag", path |-> Universe[i].path, name |-> <<"parse">>,
                  line |-> 1]>>
          ELSE <<>>)
         \o TagsFrom(t, top, i + 1)

\* _build_chunks, lines 188-235, on the manifest just written
RECURSIVE ChunkRecords(_, _, _)
ChunkRecords(path, windows, i) ==
    IF i > Len(windows) THEN <<>>
    ELSE <<[path |-> path, startLine |-> windows[i].startLine, endLine |-> windows[i].endLine]>>
         \o ChunkRecords(path, windows, i + 1)
RECURSIVE _build_chunks(_, _, _)
_build_chunks(files, chunk_lines, chunk_overlap) ==
    IF files = <<>> THEN <<>>
    ELSE (IF Head(files).is_text
          THEN ChunkRecords(Head(files).path,
                            ChunkWindows(Head(files).lines, chunk_lines, chunk_overlap), 1)
          ELSE <<>>)
         \o _build_chunks(Tail(files), chunk_lines, chunk_overlap)

\* _build_endpoints, lines 255-352: the records of the routes of each file
EpsOf(path) ==
    LET e == CHOOSE x \in Range(Universe) : x.path = path
    IN [k \in 1..e.eps |-> [path |-> path, line |-> 1, method |-> k]]
RECURSIVE _build_endpoints(_)
_build_endpoints(files) ==
    IF files = <<>> THEN <<>>
    ELSE (IF Head(files).is_text THEN EpsOf(Head(files).path) ELSE <<>>)
         \o _build_endpoints(Tail(files))

Absent == [exists |-> FALSE, recs |-> <<>>]
Written(recs) == [exists |-> TRUE, recs |-> recs]
NoStats == [exists |-> FALSE, files |-> 0, symbols |-> 0, chunks |-> 0, endpoints |-> 0]
NoArgs == [op |-> "none", scope |-> <<>>, w |-> 0, o |-> 0]
NoCounts == [sym |-> 0, chk |-> 0, ep |-> 0]
NoExt == [beh |-> "none", todo |-> <<>>, pipe |-> <<>>, closed |-> FALSE,
          exited |-> FALSE, errFill |-> 0, target |-> <<>>]

IndexIdle ==
    /\ tree = {}
    /\ filesLog = Absent
    /\ symbolsLog = Absent
    /\ chunksLog = Absent
    /\ endpointsLog = Absent
    /\ stats = NoStats
    /\ bPc = "idle"
    /\ bArgs = NoArgs
    /\ bFiles = <<>>
    /\ bCounts = NoCounts
    /\ bWritten = {}
    /\ symOutcome = "none"
    /\ ext = NoExt

\* after CodeIndex(project_dir): no log exists yet
IndexInit ==
    /\ tree \in SUBSET (1..Len(Universe))
    /\ filesLog = Absent
    /\ symbolsLog = Absent
    /\ chunksLog = Absent
    /\ endpointsLog = Absent
    /\ stats = NoStats
    /\ bPc = "idle"
    /\ bArgs = NoArgs
    /\ bFiles = <<>>
    /\ bCounts = NoCounts
    /\ bWritten = {}
    /\ symOutcome = "none"
    /\ ext = NoExt

otherVarsOfIndex == <<chunkVars, memVars, searchVars, agentVars>>

\* init / reindex is called (reindex, line 72, calls init with its arguments)
BuildStart ==
    /\ bPc = "idle"
    /\ \E op \in {"init", "reindex"}, scope \in Scopes, ca \in ChunkArgs :
          bArgs' = [op |-> op, scope |-> scope, w |-> ca.w, o |-> ca.o]
    /\ bPc' = "iter"
    /\ bFiles' = <<>>
    /\ bCounts' = NoCounts
    /\ bWritten' = {}
    /\ symOutcome' = "none"
    /\ UNCHANGED <<tree, filesLog, symbolsLog, chunksLog, endpointsLog, stats, ext>>
    /\ UNCHANGED otherVarsOfIndex

\* line 62: files = list(self._iter_files(...))
StepIterFiles ==
    /\ bPc = "iter"
    /\ bFiles' = _iter_files(tree, bArgs.scope)
    /\ bPc' = "write_files"
    /\ UNCHANGED <<tree, filesLog, symbolsLog, chunksLog, endpointsLog, stats,
                   bArgs, bCounts, bWritten, symOutcome, ext>>
    /\ UNCHANGED otherVarsOfIndex

\* line 63: self._write_files(files)
StepWriteFiles ==
    /\ bPc = "write_files"
    /\ filesLog' = Written(bFiles)
    /\ bWritten' = bWritten \cup {"files"}
    /\ bPc' = "symbols"
    /\ UNCHANGED <<tree, symbolsLog, chunksLog, endpointsLog, stats,
                   bArgs, bFiles, bCounts, symOutcome, ext>>
    /\ UNCHANGED otherVarsOfIndex

\* _build_symbols, lines 127-136: ctags --version fails; the stale log is
\* removed unless os.remove raises, and the step returns 0
StepSymbolsAbsent ==
    /\ bPc = "symbols"
    /\ \E removed \in BOOLEAN :
          /\ ~removed => symbolsLog.exists
          /\ symbolsLog' = IF removed THEN Absent ELSE symbolsLog
          /\ symOutcome' = IF removed THEN "absent" ELSE "absent_remove_failed"
    /\ bCounts' = [bCounts EXCEPT !.sym = 0]
    /\ bPc' = "chunks"
    /\ UNCHANGED <<tree, filesLog, chunksLog, endpointsLog, stats,
                   bArgs, bFiles, bWritten, ext>>
    /\ UNCHANGED otherVarsOfIndex

\* _build_symbols, lines 138-150: ctags is there; symbols.jsonl is opened for
\* writing and ctags -R is started on abspath(join(project_dir, scope))
StepSymbolsSpawn ==
    /\ bPc = "symbols"
    /\ symbolsLog' = Written(<<>>)
    /\ bWritten' = bWritten \cup {"symbols"}
    /\ \E beh \in {"exits", "never_exits", "noisy"}, junk \in BOOLEAN :
          ext' = [beh |-> beh,
                  todo |-> (IF junk THEN <<[type |-> "ptag", path |-> <<>>, name |-> <<>>, line |-> 0]>> ELSE <<>>)
                           \o TagsFrom(tree, ScopePrefix(bArgs.scope), 1),
                  pipe |-> <<>>, closed |-> FALSE, exited |-> FALSE, errFill |-> 0,
                  target |-> ScopePrefix(bArgs.scope)]
    /\ bCounts' = [bCounts EXCEPT !.sym = 0]
    /\ bPc' = "sym_read"
    /\ UNCHANGED <<tree, filesLog, chunksLog, endpointsLog, stats,
                   bArgs, bFiles, symOutcome>>
    /\ UNCHANGED otherVarsOfIndex

\* ---- the ctags process. Its stderr is a pipe nobody reads (line 150): a
\* write to it blocks once PipeCap diagnostics are in the pipe.
ExtRunning == ext.beh # "none" /\ ~ext.exited
ExtBlockedOnStderr == ext.beh = "noisy" /\ ext.errFill = PipeCap

ExtWriteLine ==
    /\ ExtRunning /\ ~ext.closed /\ ~ExtBlockedOnStderr
    /\ ext.todo # <<>>
    /\ Len(ext.pipe) < PipeCap
    /\ ext' = [ext EXCEPT !.pipe = Append(@, Head(ext.todo)), !.todo = Tail(@)]
    /\ UNCHANGED <<tree, filesLog, symbolsLog, chunksLog, endpointsLog, stats,
                   bPc, bArgs, bFiles, bCounts, bWritten, symOutcome>>
    /\ UNCHANGED otherVarsOfIndex

ExtWriteStderr ==
    /\ ExtRunning /\ ~ext.closed /\ ~ExtBlockedOnStderr
    /\ ext.beh = "noisy"
    /\ ext' = [ext EXCEPT !.errFill = @ + 1]
    /\ UNCHANGED <<tree, filesLog, symbolsLog, chunksLog, endpointsLog, stats,
                   bPc, bArgs, bFiles, bCounts, bWritten, symOutcome>>
    /\ UNCHANGED otherVarsOfIndex

ExtCloseStdout ==
    /\ ExtRunning /\ ~ext.closed /\ ~ExtBlockedOnStderr
    /\ ext.todo = <<>>
    /\ ext' = [ext EXCEPT !.closed = TRUE]
    /\ UNCHANGED <<tree, filesLog, symbolsLog, chunksLog, endpointsLog, stats,
                   bPc, bArgs, bFiles, bCounts, bWritten, symOutcome>>
    /\ UNCHANGED otherVarsOfIndex

ExtExit ==
    /\ ExtRunning /\ ext.closed
    /\ ext.beh # "never_exits"
    /\ ext' = [ext EXCEPT !.exited = TRUE]
    /\ UNCHANGED <<tree, filesLog, symbolsLog, chunksLog, endpointsLog, stats,
                   bPc, bArgs, bFiles, bCounts, bWritten, symOutcome>>
    /\ UNCHANGED otherVarsOfIndex

\* lines 152-169: one line of proc.stdout is read; a tag is written to the
\* log and counted, any other line is skipped
StepSymReadLine ==
    /\ bPc = "sym_read"
    /\ ext.pipe # <<>>
    /\ LET line == Head(ext.pipe)
       IN IF line.type = "tag"
          THEN /\ symbolsLog' = Written(Append(symbolsLog.recs,
                                   [path |-> line.path, name |-> line.name, line |-> line.line]))
               /\ bCounts' = [bCounts EXCEPT !.sym = @ + 1]
          ELSE UNCHANGED <<symbolsLog, bCounts>>
    /\ ext' = [ext EXCEPT !.pipe = Tail(@)]
    /\ UNCHANGED <<tree, filesLog, chunksLog, endpointsLog, stats,
                   bPc, bArgs, bFiles, bWritten, symOutcome>>
    /\ UNCHANGED otherVarsOfIndex

\* end of the for loop: proc.stdout is at end of file
StepSymEof ==
    /\ bPc = "sym_read"
    /\ ext.pipe = <<>> /\ ext.closed
    /\ bPc' = "sym_wait"
    /\ UNCHANGED <<tree, filesLog, symbolsLog, chunksLog, endpointsLog, stats,
                   bArgs, bFiles, bCounts, bWritten, symOutcome, ext>>
    /\ UNCHANGED otherVarsOfIndex

\* line 170: proc.wait(timeout=10) returns, the process has exited
StepSymWaitExited ==
    /\ bPc = "sym_wait"
    /\ ext.exited
    /\ symOutcome' = "present"
    /\ ext' = NoExt
    /\ bPc' = "chunks"
    /\ UNCHANGED <<tree, filesLog, symbolsLog, chunksLog, endpointsLog, stats,
                   bArgs, bFiles, bCounts, bWritten>>
    /\ UNCHANGED otherVarsOfIndex

\* lines 170-172: proc.wait raises TimeoutExpired; return count
StepSymWaitTimeout ==
    /\ bPc = "sym_wait"
    /\ ~ext.exited
    /\ symOutcome' = "timeout"
    /\ ext' = NoExt
    /\ bPc' = "chunks"
    /\ UNCHANGED <<tree, filesLog, symbolsLog, chunksLog, endpointsLog, stats,
                   bArgs, bFiles, bCounts, bWritten>>
    /\ UNCHANGED otherVarsOfIndex

\* line 65: chk_count = self._build_chunks(...)
StepChunks ==
    /\ bPc = "chunks"
    /\ LET recs == _build_chunks(filesLog.recs, bArgs.w, bArgs.o)
       IN /\ chunksLog' = Written(recs)
          /\ bCounts' = [bCounts EXCEPT !.chk = Len(recs)]
    /\ bWritten' = bWritten \cup {"chunks"}
    /\ bPc' = "endpoints"
    /\ UNCHANGED <<tree, filesLog, symbolsLog, endpointsLog, stats,
                   bArgs, bFiles, symOutcome, ext>>
    /\ UNCHANGED otherVarsOfIndex

\* line 66: ep_count = self._build_endpoints(scope)
StepEndpoints ==
    /\ bPc = "endpoints"
    /\ LET recs == _build_endpoints(filesLog.recs)
       IN /\ endpointsLog' = Written(recs)
          /\ bCounts' = [bCounts EXCEPT !.ep = Len(recs)]
    /\ bWritten' = bWritten \cup {"endpoints"}
    /\ bPc' = "stats"
    /\ UNCHANGED <<tree, filesLog, symbolsLog, chunksLog, stats,
                   bArgs, bFiles, symOutcome, ext>>
    /\ UNCHANGED otherVarsOfIndex


\* _write_stats, lines 175-185
StatsRecord(files_count, symbols_count, chunks_count, endpoints_count) ==
    [exists |-> TRUE, files |-> files_count, symbols |-> symbols_count,
     chunks |-> chunks_count, endpoints |-> endpoints_count]

\* mutant of StepStats: the stats are also written before the chunk step
StepStatsEarly ==
    /\ bPc \in {"chunks", "stats"}
    /\ stats' = StatsRecord(Len(bFiles), bCounts.sym, bCounts.chk, bCounts.ep)
    /\ bWritten' = bWritten \cup {"stats"}
    /\ bPc' = IF bPc = "stats" THEN "done" ELSE bPc
    /\ UNCHANGED <<tree, filesLog, symbolsLog, chunksLog, endpointsLog,
                   bArgs, bFiles, bCounts, symOutcome, ext>>
    /\ UNCHANGED otherVarsOfIndex

\* lines 67-68: the stats are written and init returns the summary
StepStats ==
    /\ bPc = "stats"
    /\ stats' = StatsRecord(Len(bFiles), bCounts.sym, bCounts.chk, bCounts.ep)
    /\ bWritten' = bWritten \cup {"stats"}
    /\ bPc' = "done"
    /\ UNCHANGED <<tree, filesLog, symbolsLog, chunksLog, endpointsLog,
                   bArgs, bFiles, bCounts, symOutcome, ext>>
    /\ UNCHANGED otherVarsOfIndex

\* the caller has the summary; the next call can be made
BuildReturn ==
    /\ bPc = "done"
    /\ bPc' = "idle"
    /\ bArgs' = NoArgs
    /\ bFiles' = <<>>
    /\ bCounts' = NoCounts
    /\ bWritten' = {}
    /\ symOutcome' = "none"
    /\ UNCHANGED <<tree, filesLog, symbolsLog, chunksLog, endpointsLog, stats, ext>>
    /\ UNCHANGED otherVarsOfIndex

BuildStep ==
    \/ StepIterFiles \/ StepWriteFiles \/ StepSymbolsAbsent \/ StepSymbolsSpawn
    \/ StepSymReadLine \/ StepSymEof \/ StepSymWaitExited \/ StepSymWaitTimeout
    \/ StepChunks \/ StepEndpoints \/ StepStats

ExtStep == ExtWriteLine \/ ExtWriteStderr \/ ExtCloseStdout \/ ExtExit

\* =========================================================================
\* Specifications
\* =========================================================================
\* =========================================================================
\* ReActAgent.run: agent.py lines 48-117, the confirmation of terminal commands
\* =========================================================================
MaxSteps == 2

\* commands the model can ask for: sequences of words and separators
Commands ==
    { <<>>, <<" ">>, <<"ls">>, <<"RM", " ", "x">>, <<"ls", ";", "rm", " ", "x">>,
      <<"/bin/", "rm", " ", "x">>, <<"git", " ", " ", "reset", " ", "--hard">>,
      <<"git", " ", "reset">> }

\* values of RUN_CMD_CONFIRM_MODE; <<>> when it is not set
EnvModes ==
    { <<>>, <<"always">>, <<"never">>, <<"only_delete">>, <<" ", "NEVER", " ">>,
      <<"ask">> }

\* what the user can type at the prompt
Answers == {"y", "Y", "n", "yes", ""}
NoAnswer == "no answer"

\* what the model can reply: a final answer, no action tag, or an action
Replies ==
    {[kind |-> "final", tool |-> "none", args |-> <<>>],
     [kind |-> "none", tool |-> "none", args |-> <<>>],
     [kind |-> "action", tool |-> "read_file", args |-> << <<"ls">> >>]}
    \cup {[kind |-> "action", tool |-> "run_terminal_command", args |-> a] :
             a \in {<<>>} \cup {<<c>> : c \in Commands}}
NoAction == [kind |-> "none", tool |-> "none", args |-> <<>>]

\* _get_run_command_confirm_mode, lines 229-244
_get_run_command_confirm_mode(env) ==
    LET val == LowerText(Strip(IF env = <<>> THEN <<"always">> ELSE env))
    IN IF val \in {<<"always">>, <<"never">>, <<"only_delete">>} THEN val[1]
       ELSE "always"

\* [;&|\s]: the characters that can precede a command name
CmdSeps == {";", "&", "|", " "}
\* atoms that begin and end with a word character
CmdWords == {"ls", "rm", "rmdir", "del", "mkfs", "x", "git", "reset"}

\* lines 252-255: (^|[;&|\s])(rm|rmdir|del|mkfs)\b
NameMatch(cmd) ==
    \E i \in DOMAIN cmd :
        /\ cmd[i] \in {"rm", "rmdir", "del", "mkfs"}
        /\ (i = 1 \/ cmd[i - 1] \in CmdSeps)
        /\ (i = Len(cmd) \/ cmd[i + 1] \notin CmdWords)

\* \s+ from position i: the position after the blanks, 0 when there is none
RECURSIVE AfterBlanks(_, _, _)
AfterBlanks(cmd, i, seen) ==
    IF i <= Len(cmd) /\ cmd[i] = " " THEN AfterBlanks(cmd, i + 1, TRUE)
    ELSE IF seen THEN i ELSE 0

\* first \s+ second \s+ third
ThreeWords(cmd, first, second, third) ==
    \E i \in DOMAIN cmd :
        /\ cmd[i] = first
        /\ LET j == AfterBlanks(cmd, i + 1, FALSE)
           IN /\ j \in DOMAIN cmd
              /\ cmd[j] = second
              /\ LET k == AfterBlanks(cmd, j + 1, FALSE)
                 IN k \in DOMAIN cmd /\ cmd[k] = third

\* lines 250-261: some pattern of dangerous_patterns is found in cmd
DangerousMatch(cmd) ==
    \/ NameMatch(cmd)
    \/ ThreeWords(cmd, "git", "reset", "--hard")
    \/ ThreeWords(cmd, "git", "clean", "-fdx")

\* _is_potentially_destructive_command, lines 246-262
_is_potentially_destructive_command(command) ==
    IF command = <<>> THEN TRUE
    ELSE DangerousMatch(LowerText(Strip(command)))

\* mutant of NeedConfirm: only the mode "always" asks
NeedConfirmAlwaysOnly(env, tool, args) ==
    tool = "run_terminal_command" /\ _get_run_command_confirm_mode(env) = "always"

\* lines 93-104: need_confirm for the action tool(*args)
NeedConfirm(env, tool, args) ==
    IF tool # "run_terminal_command" THEN FALSE
    ELSE LET confirm_mode == _get_run_command_confirm_mode(env)
         IN IF confirm_mode = "never" THEN FALSE
            ELSE IF confirm_mode = "only_delete"
            THEN _is_potentially_destructive_command(
                     IF args # <<>> THEN args[1] ELSE <<>>)
            ELSE TRUE

\* no run of the agent
AgentIdle ==
    /\ agPc = "idle"
    /\ agEnv = <<>>
    /\ agSteps = 0
    /\ agAction = NoAction
    /\ agAnswer = NoAnswer
    /\ agExecuted = <<>>
    /\ agObs = 0
    /\ agResult = "none"

\* run() has built its messages and enters the loop
AgentInit ==
    /\ agPc = "model"
    /\ agEnv \in EnvModes
    /\ agSteps = 0
    /\ agAction = NoAction
    /\ agAnswer = NoAnswer
    /\ agExecuted = <<>>
    /\ agObs = 0
    /\ agResult = "none"

\* lines 110-117: the tool is called and its observation appended
Executed(r, asked) ==
    Append(agExecuted, [tool |-> r.tool, args |-> r.args, asked |-> asked])

\* one turn of the loop, lines 48-102, up to the prompt when there is one
ModelReply ==
    /\ agPc = "model"
    /\ agSteps < MaxSteps
    /\ agSteps' = agSteps + 1
    /\ agAnswer' = NoAnswer
    /\ \E r \in Replies :
          IF r.kind = "final"
          THEN /\ agResult' = "final"
               /\ agPc' = "done"
               /\ UNCHANGED <<agAction, agExecuted, agObs>>
          ELSE IF r.kind = "none"
          THEN /\ agResult' = "raised"
               /\ agPc' = "done"
               /\ UNCHANGED <<agAction, agExecuted, agObs>>
          ELSE IF NeedConfirm(agEnv, r.tool, r.args)
          THEN /\ agPc' = "confirm"
               /\ agAction' = r
               /\ UNCHANGED <<agExecuted, agObs, agResult>>
          ELSE /\ agExecuted' = Executed(r, FALSE)
               /\ agObs' = agObs + 1
               /\ agAction' = r
               /\ UNCHANGED <<agPc, agResult>>
    /\ UNCHANGED agEnv
    /\ UNCHANGED <<chunkVars, memVars, searchVars, indexVars>>

\* input() returns, lines 102-117
UserAnswers ==
    /\ agPc = "confirm"
    /\ \E a \in Answers :
          /\ agAnswer' = a
          /\ IF Lower(a) # "y"
             THEN /\ agResult' = "cancelled"
                  /\ agPc' = "done"
                  /\ UNCHANGED <<agExecuted, agObs>>
             ELSE /\ agExecuted' = Executed(agAction, TRUE)
                  /\ agObs' = agObs + 1
                  /\ agPc' = "model"
                  /\ UNCHANGED agResult
    /\ UNCHANGED <<agEnv, agSteps, agAction>>
    /\ UNCHANGED <<chunkVars, memVars, searchVars, indexVars>>

Init == ChunkInit /\ MemIdle /\ SearchIdle /\ IndexIdle /\ AgentIdle

NextChunk == ChunkFile

InitChunk == ChunkInit /\ MemIdle /\ SearchIdle /\ IndexIdle /\ AgentIdle

NextEndpoints == ScanLine

InitEndpoints == ChunkInit /\ MemIdle /\ SearchIdle /\ IndexIdle /\ AgentIdle

SpecEndpoints == InitEndpoints /\ [][NextEndpoints]_vars

SpecChunk == InitChunk /\ [][NextChunk]_vars

NextMem == AddStart \/ AddStep \/ Retrieve \/ Tick
NextVec == AddStart \/ AddStep \/ Retrieve \/ Reopen \/ Reindex

InitMem == MemInit /\ ChunkInit /\ SearchIdle /\ IndexIdle /\ AgentIdle

SpecMem == InitMem /\ [][NextMem]_vars

\* an item written more than a month ago, before faiss was installed
StaleItem ==
    [OldItem EXCEPT !.createdAt = 0 - (MonthDays + 1), !.lastUsedAt = 0 - (MonthDays + 1)]

\* the store with faiss installed and no index files yet
VecInit ==
    /\ memLog \in {<<>>, <<StaleItem>>}
    /\ now = 0
    /\ turns = 0
    /\ addPc = "idle"
    /\ addCands = <<>>
    /\ addIdx = 1
    /\ addExisting = <<>>
    /\ appended = {}
    /\ ret = NoRet
    /\ VecOn

InitVec == VecInit /\ ChunkInit /\ SearchIdle /\ IndexIdle /\ AgentIdle

SpecVec == InitVec /\ [][NextVec]_vars

NextSearch == MixedSearch \/ ToolSearch

InitSearch == SearchInit /\ ChunkInit /\ MemIdle /\ IndexIdle /\ AgentIdle

SpecSearch == InitSearch /\ [][NextSearch]_vars

NextIndex == BuildStart \/ BuildStep \/ ExtStep \/ BuildReturn

InitIndex == IndexInit /\ ChunkInit /\ MemIdle /\ SearchIdle /\ AgentIdle

SpecIndex == InitIndex /\ [][NextIndex]_vars

\* the interpreter runs the build and the system runs the ctags process
SpecIndexFair ==
    InitIndex /\ [][NextIndex]_vars /\ WF_vars(BuildStep) /\ WF_vars(ExtStep)

NextAgent == ModelReply \/ UserAnswers

InitAgent == AgentInit /\ ChunkInit /\ MemIdle /\ SearchIdle /\ IndexIdle

SpecAgent == InitAgent /\ [][NextAgent]_vars

Next == NextChunk \/ NextEndpoints \/ NextMem \/ NextVec \/ NextSearch \/ NextIndex
            \/ NextAgent

Spec == Init /\ [][Next]_vars

\* =========================================================================
\* Claims
\* =========================================================================

\* C6: for a file of N >= 1 lines and every chunk size W and
\* overlap O, the last window's endLine is N and consecutive startLines
\* differ by exactly max(1, W - O).
C6_Original ==
    cN >= 1 =>
        /\ Len(cOut) >= 1
        /\ cOut[Len(cOut)].endLine = cN
        /\ \A i \in 1..(Len(cOut) - 1) :
              cOut[i + 1].startLine - cOut[i].startLine = Max(1, cW - cO)

\* C2: after every sequence of add_from_turn calls the memory log holds at
\* most one item per whitespace/case-normalized content.
C2_OneItemPerNorm ==
    addPc = "idle" =>
        \A i, j \in DOMAIN memLog :
            _normalize_text(memLog[i].content) = _normalize_text(memLog[j].content)
                => i = j

\* C3: a memory item, once appended to the log, is never removed: every
\* content ever appended (also earlier in the running call) is still the
\* content of an item of the log.
C3_NeverRemoved ==
    \A c \in appended : \E i \in DOMAIN memLog : memLog[i].content = c

ContentsOf(scored) == [i \in DOMAIN scored |-> scored[i].content]

\* what the call recorded in ret returns when it is repeated on the store as
\* the call left it (only its own lastUsedAt refresh in between)
RepeatOfRet == Take(SortDesc(Scored(memLog, _tokenize(ret.q))), ret.k)

\* C4: without the vector backend retrieve_topk returns the items in
\* descending order of 0.25*importance + 0.15*recency + 0.2*overlap, and
\* repeating the call on the same store returns the same items in the same
\* order.
C4_StableRanking ==
    (ret.called /\ ret.out # <<>>) =>
        /\ \A i \in 1..(Len(ret.out) - 1) : ret.out[i].score >= ret.out[i + 1].score
        /\ ContentsOf(RepeatOfRet) = ContentsOf(ret.out)

KindRank(kind) == CASE kind = "symbol" -> 3 [] kind = "chunk" -> 2 [] kind = "file" -> 1

\* C5: in the list mixed_search returns, every item from the symbol index
\* precedes every item from the chunk index, and every chunk item precedes
\* every file item, whatever the items' own scores and for every top_k.
C5_MixedOrder ==
    qRet.op = "mixed_search" =>
        \A i, j \in DOMAIN qRet.items :
            i < j => KindRank(qRet.items[i].kind) >= KindRank(qRet.items[j].kind)

\* C5 witness: a returned list with a symbol, a chunk and a file item in
\* which the file's own score is above the chunk's.
C5_Witness ==
    /\ qRet.op = "mixed_search"
    /\ \E i, j, k \in DOMAIN qRet.items :
          /\ qRet.items[i].kind = "symbol"
          /\ qRet.items[j].kind = "chunk"
          /\ qRet.items[k].kind = "file"
          /\ qRet.items[k].score > qRet.items[j].score

\* -------------------------------------------------------------------------
\* Index build
\* -------------------------------------------------------------------------
\* the canonical path of a file: a symbolic link resolves to its target
RealPath(path) ==
    LET e == CHOOSE x \in Range(Universe) : x.path = path
    IN IF e.target = <<>> THEN path ELSE e.target

ScopeOutside == bPc # "idle" /\ ~InBoundary(ScopePrefix(bArgs.scope))

\* C1: a build whose scope resolves outside the project directory fails
\* before anything is read or written: no log is opened for writing, the
\* extractor is not started, and the build never reaches its summary.
C1_OutsideScopeFails ==
    ScopeOutside => (bWritten = {} /\ ext.beh = "none" /\ bPc # "done")

\* C7: when a build returns, each count of the stats equals the number of
\* records of the corresponding log on disk, however the symbol step went.
C7_StatsMatchLogs ==
    bPc = "done" =>
        /\ stats.files = Len(filesLog.recs)
        /\ stats.symbols = Len(symbolsLog.recs)
        /\ stats.chunks = Len(chunksLog.recs)
        /\ stats.endpoints = Len(endpointsLog.recs)

\* C8: the path of every File Record a build writes resolves, symbolic links
\* followed, inside the scan root, and none of its directory components below
\* the project directory is deny-listed.
C8_RecordsInsideRoot ==
    "files" \in bWritten =>
        \A i \in DOMAIN filesLog.recs :
            LET p == filesLog.recs[i].path
            IN /\ IsPrefix(ScopePrefix(bArgs.scope), RealPath(p))
               /\ \A j \in (Len(ProjectRoot) + 1)..(Len(p) - 1) : p[j] \notin IGNORED_DIRS

\* C9: the symbol step never blocks indefinitely: a build that has started
\* the extractor goes on to the chunk step, whatever the extractor does.
C9_SymbolStepEnds == (bPc = "sym_read") ~> (bPc = "chunks")

\* C10: when the extractor is absent the build returns normally with a
\* symbol count of 0, no symbol record is on disk, and a symbol search
\* returns the empty list.
C10_AbsentExtractor ==
    (bPc = "done" /\ symOutcome \in {"absent", "absent_remove_failed"}) =>
        /\ stats.symbols = 0
        /\ symbolsLog.recs = <<>>
        /\ ~symbols_search_raises(symbolsLog.recs, <<"parse">>)
        /\ symbols_search(symbolsLog.recs, <<"parse">>, 20) = <<>>

\* -------------------------------------------------------------------------
\* Memory store and vector index
\* -------------------------------------------------------------------------
InLog(c) == \E i \in DOMAIN memLog : memLog[i].content = c

\* C11: when the vector upsert that follows an append fails, add_from_turn
\* still returns, and once it has returned every item whose upsert failed
\* is in the memory log.
C11_UpsertFailureKeepsItem ==
    addPc = "idle" => \A c \in upsertFailed : InLog(c)

\* the fused scores of the stored items for the query of the call just made
ScoresFor(items, q) == [i \in DOMAIN items |-> FusedScore(items[i], _tokenize(q))]

SharesToken(items, q) ==
    \E i \in DOMAIN items : _tokenize(q) \cap _tokenize(items[i].content) # {}

\* C12: without the vector backend, a call with k >= 1 on a store holding an
\* item that shares a token with the query returns a non-empty list that is
\* a valid top-k: min(k, number of items) entries in non-increasing score,
\* each the score of a stored item with that content, none lower than the
\* score of an item left out, and every item that fewer than k others
\* equal or beat is in the list.
C12_DegradedTopK ==
    [][ (ret'.called /\ ~faiss /\ SharesToken(memLog, ret'.q)) =>
          LET out == ret'.out
              sc == ScoresFor(memLog, ret'.q)
              left == {i \in DOMAIN memLog :
                          \A j \in DOMAIN out : out[j].content # memLog[i].content}
          IN /\ out # <<>>
             /\ Len(out) = Min(ret'.k, Len(memLog))
             /\ \A j \in 1..(Len(out) - 1) : out[j].score >= out[j + 1].score
             /\ \A j \in DOMAIN out :
                   /\ \E i \in DOMAIN memLog :
                         memLog[i].content = out[j].content /\ sc[i] = out[j].score
                   /\ \A i \in left : sc[i] <= out[j].score
             /\ \A i \in DOMAIN memLog :
                   Cardinality({x \in DOMAIN memLog \ {i} : sc[x] >= sc[i]}) < ret'.k
                       => i \notin left
      ]_vars

\* C12 witness: a call with k = 1 on a store of several items returned one
\* item that shares a token with the query and is not the first of the log.
C12_Witness ==
    /\ ret.called /\ ~faiss
    /\ ret.k = 1
    /\ Len(memLog) >= 2
    /\ Len(ret.out) = 1
    /\ _tokenize(ret.q) \cap _tokenize(ret.out[1].content) # {}
    /\ ret.out[1].content # memLog[1].content

\* an item without its lastUsedAt
Untouched(it) == [it EXCEPT !.lastUsedAt = 0]

\* C17: retrieve_topk changes nothing but the lastUsedAt of items: the log
\* keeps its length, order and every other field, the index files and a
\* loaded index with its metadata are unchanged, and a call returning the
\* empty list leaves the log as it was.
C17_RetrieveFrame ==
    [][ ret'.called =>
          /\ Len(memLog') = Len(memLog)
          /\ \A i \in DOMAIN memLog : Untouched(memLog'[i]) = Untouched(memLog[i])
          /\ dIndex' = dIndex /\ dMeta' = dMeta
          /\ vIndex.loaded => (vIndex' = vIndex /\ vMeta' = vMeta)
          /\ ret'.out = <<>> => memLog' = memLog
      ]_vars

\* C17 witness: with the index files written, a call returned the item
\* stored a month ago and refreshed its lastUsedAt, its importance and
\* creation time being those it had.
C17_Witness ==
    /\ ret.called /\ ret.out # <<>>
    /\ dIndex.exists /\ dMeta.exists /\ Len(dMeta.recs) >= 1
    /\ Len(memLog) >= 2
    /\ memLog[1].content = StaleItem.content
    /\ memLog[1].importance = StaleItem.importance
    /\ memLog[1].createdAt = StaleItem.createdAt
    /\ memLog[1].lastUsedAt = now

\* the item at position i is one of the k highest: fewer than k items beat
\* it, an equal score counting when it comes earlier in the log
InTopK(items, sc, i, k) ==
    Cardinality({x \in DOMAIN items : sc[x] > sc[i] \/ (sc[x] = sc[i] /\ x < i)}) < k

\* C18: retrieve_topk(query, k) returns at most k contents, those of the k
\* highest fused-score items in non-increasing score, and after the call
\* exactly these items have lastUsedAt equal to the time of the call, every
\* other item keeping the lastUsedAt it had.
C18_TopKTouched ==
    [][ (ret'.called /\ ~faiss /\ memLog # <<>> /\ _tokenize(ret'.q) # {}) =>
          LET sc == ScoresFor(memLog, ret'.q)
              top == {i \in DOMAIN memLog : InTopK(memLog, sc, i, ret'.k)}
          IN /\ Len(ret'.out) <= ret'.k
             /\ Len(ret'.out) = Cardinality(top)
             /\ \A j \in 1..(Len(ret'.out) - 1) : ret'.out[j].score >= ret'.out[j + 1].score
             /\ \A i \in top : \E j \in DOMAIN ret'.out :
                   ret'.out[j].content = memLog[i].content /\ ret'.out[j].score = sc[i]
             /\ \A i \in DOMAIN memLog :
                   memLog'[i].lastUsedAt = IF i \in top THEN now ELSE memLog[i].lastUsedAt
      ]_vars

\* C19: in memory and on disk, the metadata list has as many entries as the
\* index has vectors, and the Nth entry is the content of the Nth vector.
C19_MetaParallelToIndex ==
    /\ vIndex.loaded => vMeta = vIndex.vecs
    /\ (dIndex.exists \/ dMeta.exists) => dMeta.recs = dIndex.vecs

\* C20: the content of every entry of the vector index, in memory and on
\* disk, is the content of an item stored in the memory log.
C20_IndexDerivedFromLog ==
    addPc = "idle" =>
        /\ \A i \in DOMAIN vMeta : InLog(vMeta[i])
        /\ \A i \in DOMAIN vIndex.vecs : InLog(vIndex.vecs[i])
        /\ \A i \in DOMAIN dMeta.recs : InLog(dMeta.recs[i])
        /\ \A i \in DOMAIN dIndex.vecs : InLog(dIndex.vecs[i])

\* -------------------------------------------------------------------------
\* Query tools on an index that was never built
\* -------------------------------------------------------------------------
\* the log (or logs) the tool reads has no record
BackingIndexEmpty(op) ==
    CASE op = "files_search" -> qFiles = <<>>
      [] op = "symbols_search" -> qSymbols = <<>>
      [] op = "chunks_search" -> qChunks = <<>>
      [] op = "mixed_search" -> qFiles = <<>> /\ qSymbols = <<>> /\ qChunks = <<>>
      [] OTHER -> TRUE

\* C13: each query tool, called when its backing index was never built,
\* returns without raising a result with an empty items list and a message.
C13_NeverBuiltReply ==
    (qRet.op # "none" /\ BackingIndexEmpty(qRet.op)) =>
        /\ ~qRet.raised
        /\ qRet.items = <<>>
        /\ qRet.message

\* -------------------------------------------------------------------------
\* Build order and endpoint records
\* -------------------------------------------------------------------------
IndexFiles == <<filesLog, symbolsLog, chunksLog, endpointsLog, stats>>

\* C14: init called when an index is already present leaves the existing
\* logs and stats unchanged.
C14_InitOnlyIfAbsent ==
    [][ (bArgs.op = "init" /\ bWritten = {} /\ stats.exists) => UNCHANGED IndexFiles ]_vars

Named(entries) == MethodList(entries)

\* C16: a registration with a methods list naming n methods has exactly n
\* records with the line and route of the registration, one per method; a
\* registration without a methods list has one record with method ANY.
C16_OneRecordPerMethod ==
    (epIn.line >= 1 /\ epIn.lang = "python") =>
        IF epIn.written = "none"
        THEN epOut = <<[line |-> epIn.line, method |-> "ANY", route |-> epIn.route,
                        framework |-> "python-flask"]>>
        ELSE LET listed == IF epIn.written = "empty" THEN <<>> ELSE Named(epIn.methods)
             IN /\ Len(epOut) = Len(listed)
                /\ \A k \in DOMAIN epOut :
                      epOut[k] = [line |-> epIn.line, method |-> listed[k],
                                  route |-> epIn.route, framework |-> "python-flask"]

\* -------------------------------------------------------------------------
\* C21: after a reindex call that returned with the backend available, the
\* vector index (in memory and in index.faiss / meta.jsonl) holds exactly one
\* entry per stored item with non-empty content, in log order, whatever it
\* held before; with an empty log both files exist and hold zero entries.
C21_ReindexReplaces ==
    reindexRet \in {"reset", "rebuilt"} =>
        LET sel == SelectSeq(memLog, LAMBDA it : it.content # <<>>)
            expected == [i \in 1..Len(sel) |-> sel[i].content]
        IN /\ vIndex = [loaded |-> TRUE, vecs |-> expected]
           /\ vMeta = expected
           /\ dIndex = [exists |-> TRUE, vecs |-> expected]
           /\ dMeta = [exists |-> TRUE, recs |-> expected]
           /\ (memLog = <<>>) = (reindexRet = "reset")

\* C21 witness: a rebuild returned for a log of two items or more, after an
\* upsert of the last add_from_turn call had failed, so that the index was
\* not the one the log calls for before the rebuild.
C21_Witness ==
    /\ reindexRet = "rebuilt"
    /\ upsertFailed # {}
    /\ Len(memLog) >= 2

\* -------------------------------------------------------------------------
\* C22: the importance of every stored item stays between 0 and 1 (0..ImpCap
\* in units of 0.05); an appended item starts at 0.6, a dedup hit raises the
\* item it hits by 0.05, or to 1.0 when that is less, and changes no other
\* importance, and no step lowers the importance of an item that stays.
C22_ImportanceBounded ==
    [][ /\ \A i \in DOMAIN memLog : memLog[i].importance \in 0..ImpCap
        /\ \A i \in DOMAIN memLog' :
              /\ memLog'[i].importance \in 0..ImpCap
              /\ i <= Len(memLog) => memLog'[i].importance >= memLog[i].importance
              /\ i > Len(memLog) => memLog'[i].importance = ImpSeed
        /\ (/\ addPc = "loop"
            /\ _normalize_text(addCands[addIdx]) # <<>>
            /\ HasNorm(addExisting, _normalize_text(addCands[addIdx])))
           => \E j \in DOMAIN addExisting :
                 /\ _normalize_text(addExisting[j].content)
                        = _normalize_text(addCands[addIdx])
                 /\ j \in DOMAIN memLog'
                 /\ memLog'[j].importance = Min(ImpCap, addExisting[j].importance + 1)
                 /\ \A i \in DOMAIN memLog' \ {j} :
                       i \in DOMAIN addExisting
                       /\ memLog'[i].importance = addExisting[i].importance
      ]_vars

\* C22 witness: one call hit the item stored at 0.95 twice; the first hit
\* raised it to 1.0 and the second left it there.
C22_Witness ==
    /\ addPc = "idle"
    /\ Len(addCands) = 2
    /\ \A i \in DOMAIN addCands :
          _normalize_text(addCands[i]) = _normalize_text(OldItem.content)
    /\ Len(memLog) = 1
    /\ memLog[1].importance = ImpCap

\* -------------------------------------------------------------------------
\* C23: after a build that logged endpoints, endpoints_search returns the
\* logged records that pass the method and route-prefix filters, sorted by
\* descending score 2*(query in route) + (query in handler) + (query in
\* preview), cut to top_k.
C23_EndpointsSearchResult ==
    (qRet.op = "endpoints_search" /\ EndpointsLogged(qFiles) # <<>>) =>
        /\ ~qRet.raised
        /\ LET logged == EndpointsLogged(qFiles)
               q == LowerText(qRet.query)
               out == qRet.items
           IN /\ Len(out) = Min(Len(logged), Max(1, qRet.top_k))
              /\ \A i \in DOMAIN out : \E j \in DOMAIN logged : out[i] = logged[j]
              /\ \A i \in DOMAIN out : \A j \in DOMAIN out :
                    i < j => EndpointScore(out[i], q) >= EndpointScore(out[j], q)
              /\ \A j \in DOMAIN logged :
                    (\A i \in DOMAIN out : out[i] # logged[j]) =>
                        \A i \in DOMAIN out :
                            EndpointScore(out[i], q) >= EndpointScore(logged[j], q)

\* -------------------------------------------------------------------------
\* C24: for every file length, chunk size and overlap the chunking loop of a
\* file ends: the window start grows strictly from one iteration to the
\* next, at most N windows are emitted, and the loop stops after emitting
\* the window that reaches the last line.
C24_LoopEndsAtLastLine ==
    cN >= 1 =>
        /\ Len(cOut) <= cN
        /\ \A i \in 1..(Len(cOut) - 1) : cOut[i + 1].startLine > cOut[i].startLine
        /\ Len(cOut) >= 1
        /\ cOut[Len(cOut)].endLine = cN
        /\ \A i \in 1..(Len(cOut) - 1) : cOut[i].endLine < cN

\* -------------------------------------------------------------------------
\* C25: every chunk record of a file of N lines has
\* 1 <= startLine <= endLine <= N, and every line 1..N of the file lies in at
\* least one window, for every chunk size and overlap.
C25_WindowsCoverFile ==
    /\ \A i \in DOMAIN cOut :
          1 <= cOut[i].startLine
          /\ cOut[i].startLine <= cOut[i].endLine
          /\ cOut[i].endLine <= cN
    /\ \A l \in 1..cN :
          \E i \in DOMAIN cOut : cOut[i].startLine <= l /\ l <= cOut[i].endLine

\* -------------------------------------------------------------------------
\* C26: with a non-empty query, every file that files_search returns, and
\* every file entry of mixed_search, is a file of the manifest whose relative
\* path or basename contains the query.
C26_OnlyMatchingFiles ==
    (/\ qRet.op \in {"files_search", "mixed_search"}
     /\ ~qRet.raised
     /\ LowerText(qRet.query) # <<>>) =>
        \A i \in DOMAIN qRet.items :
            qRet.items[i].kind = "file" =>
                \E j \in DOMAIN qFiles :
                    /\ qFiles[j].path = qRet.items[i].path
                    /\ \/ IsInfix(LowerText(qRet.query), LowerText(qFiles[j].relpath))
                       \/ IsInfix(LowerText(qRet.query),
                                  LowerText(Basename(qFiles[j].relpath)))

\* -------------------------------------------------------------------------
\* C27: the items of the memory log have pairwise distinct ids, also when
\* several items are appended by one call or within the same second.
C27_DistinctIds ==
    \A i \in DOMAIN memLog : \A j \in DOMAIN memLog :
        i # j => memLog[i].id # memLog[j].id

\* -------------------------------------------------------------------------
\* C28: after a build, every Symbol, Chunk and Endpoint Record refers to a
\* file that has a File Record in the manifest the same build wrote.
C28_RecordsReferToManifest ==
    bPc = "done" =>
        \A log \in {symbolsLog, chunksLog, endpointsLog} :
            \A i \in DOMAIN log.recs :
                \E j \in DOMAIN filesLog.recs : filesLog.recs[j].path = log.recs[i].path

\* -------------------------------------------------------------------------
\* C29: for a store of n items, a query with at least one token and k >= 1,
\* retrieve_topk returns exactly min(k, n) contents: no item is excluded by
\* the positive-score filter, also one that shares no token with the query.
C29_ReturnsMinKN ==
    [][ (ret'.called /\ ret'.k >= 1 /\ Strip(ret'.q) # <<>> /\ _tokenize(ret'.q) # {})
           => Len(ret'.out) = Min(ret'.k, Len(memLog))
      ]_vars

\* C29 witness: with the vector index loaded, a call whose query shares no
\* token with a stored item returned every item of the store, that one
\* included.
C29_Witness ==
    /\ ret.called
    /\ faiss /\ vIndex.loaded /\ Len(vMeta) >= 1
    /\ _tokenize(ret.q) # {}
    /\ Len(memLog) >= 2
    /\ Len(ret.out) = Len(memLog)
    /\ \E i \in DOMAIN memLog :
          /\ _tokenize(memLog[i].content) \cap _tokenize(ret.q) = {}
          /\ \E j \in DOMAIN vMeta : vMeta[j] = memLog[i].content
          /\ \E j \in DOMAIN ret.out : ret.out[j].content = memLog[i].content

\* -------------------------------------------------------------------------
\* C30: run_terminal_command is executed only after the user answered 'y' to
\* the prompt, unless the confirm mode is "never", or it is "only_delete" and
\* the command is non-empty and matches no destructive pattern; on any other
\* answer the run ends with the cancellation result, the tool is not
\* executed and no observation is appended.
\* ExecutesCommand: this step calls run_terminal_command
ExecutesCommand ==
    /\ Len(agExecuted') = Len(agExecuted) + 1
    /\ agExecuted'[Len(agExecuted')].tool = "run_terminal_command"

\* the mode and the command exempt the call from confirmation
Exempt(env, args) ==
    LET cmd == IF args # <<>> THEN args[1] ELSE <<>>
        mode == _get_run_command_confirm_mode(env)
    IN \/ mode = "never"
       \/ /\ mode = "only_delete"
          /\ cmd # <<>>
          /\ ~DangerousMatch(LowerText(Strip(cmd)))

\* C30 as stated: the answer that lets the command run is 'y'.
C30_OnlyAfterY ==
    [][ /\ ExecutesCommand =>
              \/ agPc = "confirm" /\ agAnswer' = "y"
              \/ Exempt(agEnv, agExecuted'[Len(agExecuted')].args)
        /\ (agPc = "confirm" /\ agAnswer' # "y") =>
              /\ agResult' = "cancelled"
              /\ agPc' = "done"
              /\ agExecuted' = agExecuted
              /\ agObs' = agObs
      ]_vars

\* C30 with the answer compared as the code compares it (line 105): the
\* command runs after an answer that is 'y' once lower-cased, 'y' or 'Y',
\* and every other answer cancels the run.
C30_OnlyAfterYAnyCase ==
    [][ /\ ExecutesCommand =>
              \/ agPc = "confirm" /\ agAnswer' \in {"y", "Y"}
                    /\ agExecuted'[Len(agExecuted')].args = agAction.args
              \/ Exempt(agEnv, agExecuted'[Len(agExecuted')].args)
        /\ (agPc = "confirm" /\ agAnswer' \notin {"y", "Y"}) =>
              /\ agResult' = "cancelled"
              /\ agPc' = "done"
              /\ agExecuted' = agExecuted
              /\ agObs' = agObs
      ]_vars

\* C30 witness: in the mode only_delete a destructive command was run after
\* the prompt, and an earlier harmless one without a prompt.
C30_Witness ==
    /\ _get_run_command_confirm_mode(agEnv) = "only_delete"
    /\ Len(agExecuted) = 2
    /\ agExecuted[1].tool = "run_terminal_command" /\ ~agExecuted[1].asked
    /\ agExecuted[2].tool = "run_terminal_command" /\ agExecuted[2].asked
    /\ agExecuted[2].args # <<>>
    /\ DangerousMatch(LowerText(Strip(agExecuted[2].args[1])))
    /\ agAnswer \in {"y", "Y"}
    /\ agObs = 2

====
